---- MODULE Spec2Model ----
(***************************************************************************)
(* Cellular automata on a toroidal square lattice: the forest-fire model   *)
(* (src/forest_fire.py, class ForestFire) and the activation/inhibition    *)
(* model (src/turing_patterns.py, class TuringPatterns).                   *)
(*                                                                         *)
(* One simulation object is modelled at a time (the module-level `sim` of  *)
(* either file).  Its two numpy arrays live in `heap` under the array ids  *)
(* 1 and 2; the attributes current_state and next_state hold array ids, so *)
(* that the reference swap at the end of update() is a swap of ids and not *)
(* a copy of cells.  Cell values are the numbers the code stores; density  *)
(* is kept in hundredths (density = 30 stands for 0.30) and weights are    *)
(* integers, so that all arithmetic of the code is exact here.             *)
(***************************************************************************)
EXTENDS Integers, Sequences, FiniteSets, Bags, TLC

\* ---------------------------------------------------------------- bounds
MaxSize == 3
MaxRadius == 2
MaxStep == 3
MaxStepsPerFrame == 2
MaxFrames == 2

\* ------------------------------------------------------- program constants
Empty == 0
Tree == 1
Burning == 2
Burnt == 3
Inactive == 0
Active == 1
DensityScale == 100

\* --------------------------------------------------- constructor arguments
Sizes == -1..MaxSize
Radii == 0..MaxRadius
FireDensities == {0, 23, 95, 100, 110}
PatternDensities == {0, 11, 90, 100}
\* <<short_weight, long_weight>>
WeightPairs == {<<3, 1>>, <<1, 1>>, <<0, 1>>, <<1, -1>>}

\* sim:          the attributes of the simulation object (size, density, radii,
\*               weights, step_counter, and the ids of the arrays that
\*               current_state and next_state refer to)
\* heap:         the contents of the two arrays, by array id
\* err:          the exception the last call raised, "none" if it returned
\* initialized:  initialize() has been called; the drivers (make_animation)
\*               call it once, before the first update(), and update() on a
\*               simulation that was never initialised is explored as well
\* ref:          what a caller that read the attribute sim.current_state
\*               holds: the id of the array it got (numpy hands out the array
\*               itself, not a copy), the step counter and the cells it saw
\* anim:         the animation driver: the steps_per_frame make_animation was
\*               called with, the number of frame callbacks run so far and
\*               the count of the progress bar
VARIABLES sim, heap, err, initialized, ref, anim

vars == <<sim, heap, err, initialized, ref, anim>>

\* ------------------------------------------------------------------ grids
Coord(size) == 0..(size - 1)

Cells(size) == Coord(size) \X Coord(size)

\* zeros as np.ones would allocate it
zeros_Ones(size) == [c \in Cells(size) |-> 1]

zeros(size) == [c \in Cells(size) |-> 0]

\* numpy's flat index i of a size x size array is the cell (i div size, i mod size)
Flat(size, i) == <<i \div size, i % size>>

\* Python's int() on a non-negative or negative rational num/den: toward zero
Trunc(num, den) == IF num >= 0 THEN num \div den ELSE -((-num) \div den)

\* Python's round(num/den, 1), as a number of tenths (ties to even)
RoundTenths(num, den) ==
    LET q == 10 * num
        f == q \div den
        r == q % den
    IN  IF 2 * r > den THEN f + 1
        ELSE IF 2 * r < den THEN f
        ELSE IF f % 2 = 0 THEN f ELSE f + 1

\* all subsets of S with exactly k elements
RECURSIVE KSubsets(_, _)
KSubsets(S, k) ==
    IF k = 0 THEN {{}}
    ELSE IF Cardinality(S) < k THEN {}
    ELSE LET x == CHOOSE y \in S : TRUE
         IN  {T \cup {x} : T \in KSubsets(S \ {x}, k - 1)} \cup KSubsets(S \ {x}, k)

\* ----------------------------------------------------------- construction
NoObject == [kind |-> "none"]

ForestFire(size, density, radius) ==
    [kind |-> "fire", size |-> size, density |-> density, radius |-> radius,
     current_state |-> 1, next_state |-> 2, step_counter |-> 0]

TuringPatterns(size, density, short_radius, long_radius, short_weight, long_weight) ==
    [kind |-> "pattern", size |-> size, density |-> density,
     current_state |-> 1, next_state |-> 2,
     Ra |-> short_radius, Ri |-> long_radius,
     wa |-> short_weight, wi |-> long_weight, step_counter |-> 0]

\* no reference handed out yet
NoRef == [array |-> 0, step |-> 0, cells |-> <<>>]

\* make_animation(sim, total_frames, steps_per_frame) before its first frame
Animation(steps_per_frame) ==
    [steps_per_frame |-> steps_per_frame, frame |-> 0, progress |-> 0]

StepsPerFrame == 0..MaxStepsPerFrame

NewArrays(size) == [a \in {1, 2} |-> zeros(size)]

\* np.zeros((size, size)) raises ValueError for a negative size
Construct(obj) ==
    IF obj.size < 0
    THEN sim = NoObject /\ heap = <<>> /\ err = "ValueError"
    ELSE sim = obj /\ heap = NewArrays(obj.size) /\ err = "none"

\* the constructor calls of both classes
Constructed ==
    \/ \E size \in Sizes, density \in FireDensities, radius \in Radii :
          Construct(ForestFire(size, density, radius))
    \/ \E size \in Sizes, density \in PatternDensities, Ra \in Radii, Ri \in Radii,
          w \in WeightPairs :
          Construct(TuringPatterns(size, density, Ra, Ri, w[1], w[2]))

\* a simulation object, not yet handed to make_animation (steps_per_frame is
\* then the default of the parameter)
Init ==
    /\ initialized = FALSE
    /\ ref = NoRef
    /\ anim = Animation(1)
    /\ Constructed

\* ------------------------------------------------------------- fire: update
\* ScanRow with a bounded, non-periodic lattice: neighbours off the edge are skipped
RECURSIVE ScanRow_NoWrap(_, _, _, _, _, _, _, _)
ScanRow_NoWrap(grid, size, radius, row, col, dr, dc, state) ==
    IF dc > radius THEN state
    ELSE IF (dr # 0 \/ dc # 0)
            /\ (row + dr) \in Coord(size) /\ (col + dc) \in Coord(size)
            /\ grid[<<row + dr, col + dc>>] = Burning
         THEN Burning
         ELSE ScanRow_NoWrap(grid, size, radius, row, col, dr, dc + 1, state)

\* inner loop over dc, from dc on; `break` leaves this loop only
RECURSIVE ScanRow(_, _, _, _, _, _, _, _)
ScanRow(grid, size, radius, row, col, dr, dc, state) ==
    IF dc > radius THEN state
    ELSE IF (dr # 0 \/ dc # 0)
            /\ grid[<<(row + dr) % size, (col + dc) % size>>] = Burning
         THEN Burning
         ELSE ScanRow(grid, size, radius, row, col, dr, dc + 1, state)

\* outer loop over dr, from dr on
RECURSIVE ScanNeighbours(_, _, _, _, _, _, _)
ScanNeighbours(grid, size, radius, row, col, dr, state) ==
    IF dr > radius THEN state
    ELSE ScanNeighbours(grid, size, radius, row, col, dr + 1,
                        ScanRow(grid, size, radius, row, col, dr, -radius, state))

\* the offsets whose neighbour cell the inner loop reads (line 108), appended
\* to visited: as ScanRow, the row ends at its first Burning neighbour
RECURSIVE ScanRowVisits(_, _, _, _, _, _, _, _)
ScanRowVisits(grid, size, radius, row, col, dr, dc, visited) ==
    IF dc > radius THEN visited
    ELSE IF dr # 0 \/ dc # 0
         THEN IF grid[<<(row + dr) % size, (col + dc) % size>>] = Burning
              THEN Append(visited, <<dr, dc>>)
              ELSE ScanRowVisits(grid, size, radius, row, col, dr, dc + 1,
                                 Append(visited, <<dr, dc>>))
         ELSE ScanRowVisits(grid, size, radius, row, col, dr, dc + 1, visited)

\* the offsets read by the whole scan of a Tree cell, in order: as
\* ScanNeighbours, the outer loop goes on to the next dr after a `break`
RECURSIVE ScanVisits(_, _, _, _, _, _, _)
ScanVisits(grid, size, radius, row, col, dr, visited) ==
    IF dr > radius THEN visited
    ELSE ScanVisits(grid, size, radius, row, col, dr + 1,
                    ScanRowVisits(grid, size, radius, row, col, dr, -radius, visited))

\* FireCell with a final `else: state = 0`: ash becomes open ground again
FireCell_BurntClears(grid, size, radius, row, col) ==
    LET state == grid[<<row, col>>]
    IN  IF state = Burning THEN Burnt
        ELSE IF state = Tree
             THEN ScanNeighbours(grid, size, radius, row, col, -radius, state)
             ELSE Empty

\* FireCell where a burning tree burns out only once no tree is left next to it
FireCell_KeepsBurning(grid, size, radius, row, col) ==
    LET state == grid[<<row, col>>]
    IN  IF state = Burning
        THEN IF \E dr \in -1..1, dc \in -1..1 :
                   grid[<<(row + dr) % size, (col + dc) % size>>] = Tree
             THEN Burning ELSE Burnt
        ELSE IF state = Tree
             THEN ScanNeighbours(grid, size, radius, row, col, -radius, state)
             ELSE state

\* FireCell with `elif state != 3`: open ground next to a fire burns as well
FireCell_SpreadsToEmpty(grid, size, radius, row, col) ==
    LET state == grid[<<row, col>>]
    IN  IF state = Burning THEN Burnt
        ELSE IF state # Burnt
             THEN ScanNeighbours(grid, size, radius, row, col, -radius, state)
             ELSE state

\* FireCell of a forest that grows back: ash becomes a tree again
FireCell_Regrows(grid, size, radius, row, col) ==
    LET state == grid[<<row, col>>]
    IN  IF state = Burning THEN Burnt
        ELSE IF state = Tree
             THEN ScanNeighbours(grid, size, radius, row, col, -radius, state)
             ELSE IF state = Burnt THEN Tree ELSE state

\* the value written to next_state[row, col]
FireCell(grid, size, radius, row, col) ==
    LET state == grid[<<row, col>>]
    IN  IF state = Burning THEN Burnt
        ELSE IF state = Tree
             THEN ScanNeighbours(grid, size, radius, row, col, -radius, state)
             ELSE state

\* for row in range(size): for col in range(size)
RowMajor(size) == [i \in 1..(size * size) |-> <<(i - 1) \div size, (i - 1) % size>>]

\* FireSweep on a single array: each new value is also stored into the array
\* that is being read
RECURSIVE FireSweep_InPlace(_, _, _, _, _, _, _)
FireSweep_InPlace(h, cur, nxt, size, radius, order, i) ==
    IF i > Len(order) THEN h
    ELSE LET v == FireCell(h[cur], size, radius, order[i][1], order[i][2])
         IN  FireSweep_InPlace([h EXCEPT ![nxt][order[i]] = v, ![cur][order[i]] = v],
                               cur, nxt, size, radius, order, i + 1)

\* the two nested loops of update(): cell order[i] onwards, reading array cur
\* and writing array nxt of heap h
RECURSIVE FireSweep(_, _, _, _, _, _, _)
FireSweep(h, cur, nxt, size, radius, order, i) ==
    IF i > Len(order) THEN h
    ELSE FireSweep([h EXCEPT ![nxt][order[i]] =
                        FireCell(h[cur], size, radius, order[i][1], order[i][2])],
                   cur, nxt, size, radius, order, i + 1)

\* Swap without `self.step_counter += 1`
Swap_NoCount(s) ==
    [s EXCEPT !.current_state = s.next_state,
              !.next_state = s.current_state]

\* Swap as `self.current_state = self.next_state`: both names on one array
Swap_Alias(s) ==
    [s EXCEPT !.current_state = s.next_state,
              !.step_counter = s.step_counter + 1]

\* current_state, next_state = next_state, current_state; step_counter += 1
Swap(s) ==
    [s EXCEPT !.current_state = s.next_state,
              !.next_state = s.current_state,
              !.step_counter = s.step_counter + 1]

FireUpdate ==
    /\ sim.kind = "fire"
    /\ sim.step_counter < MaxStep
    /\ \E order \in {RowMajor(sim.size)} :
          heap' = FireSweep(heap, sim.current_state, sim.next_state, sim.size,
                            sim.radius, order, 1)
    /\ sim' = Swap(sim)
    /\ err' = "none"
    /\ UNCHANGED <<initialized, ref, anim>>

\* --------------------------------------------------------- fire: initialize
\* FireSeedCount with round() in place of int()
FireSeedCount_Nearest(size, density) ==
    (2 * density * (size * size) + DensityScale) \div (2 * DensityScale)

\* int(self.density * total_cells)
FireSeedCount(size, density) == Trunc(density * (size * size), DensityScale)

\* current_state.flat[tree_indices] = 1
SetFlat(grid, size, indices, value) ==
    [c \in Cells(size) |->
        IF \E i \in indices : Flat(size, i) = c THEN value ELSE grid[c]]

\* np.where(current_state == 1)
TreeCoords(grid, size) == {c \in Cells(size) : grid[c] = Tree}

\* np.random.choice(total_cells, k, replace=False) raises ValueError for k < 0
\* and for k > total_cells; for total_cells = 0 (and k = 0) it raises or
\* returns an empty sample, depending on the numpy version: both outcomes are
\* kept. Nothing has been assigned when it raises.
FireInitialize ==
    /\ sim.kind = "fire"
    /\ ~initialized /\ sim.step_counter = 0
    /\ initialized' = TRUE
    /\ UNCHANGED <<sim, ref, anim>>
    /\ LET total_cells == sim.size * sim.size
           k == FireSeedCount(sim.size, sim.density)
           cur == sim.current_state
       IN  \/ /\ (k < 0 \/ k > total_cells \/ total_cells = 0)
              /\ err' = "ValueError"
              /\ UNCHANGED heap
           \/ /\ k >= 0 /\ k <= total_cells
              /\ err' = "none"
              /\ \E tree_indices \in KSubsets(0..(total_cells - 1), k) :
                   LET planted == SetFlat(heap[cur], sim.size, tree_indices, Tree)
                       tree_coords == TreeCoords(planted, sim.size)
                   IN  IF tree_coords # {}
                       THEN \E fire \in tree_coords :
                              heap' = [heap EXCEPT ![cur] =
                                          [planted EXCEPT ![fire] = Burning]]
                       ELSE heap' = [heap EXCEPT ![cur] = planted]

\* ---------------------------------------------------------- pattern: update
\* the nested loops `for col1 in range(-r, r+1): for row1 in range(-r, r+1)`:
\* the pairs <<row1, col1>> they run through
Offsets(r) == (-r..r) \X (-r..r)

\* WindowSum over the distinct cells of the window: a cell reached through
\* several offsets is counted once
WindowSum_Distinct(grid, size, r, row, col) ==
    Cardinality({d \in Cells(size) :
                    /\ grid[d] > 0
                    /\ \E o \in Offsets(r) :
                          d = <<(row + o[1]) % size, (col + o[2]) % size>>})

\* na or ni: the states current_state[(row+row1) % size, (col+col1) % size]
\* added up over all offsets of the window, one term per offset (the terms
\* that are 0 are left out of the bag whose counts are added)
WindowSum(grid, size, r, row, col) ==
    LET term(o) == grid[<<(row + o[1]) % size, (col + o[2]) % size>>]
    IN  BagCardinality([o \in {x \in Offsets(r) : term(x) > 0} |-> term(o)])

\* PatternCell with the two windows exchanged: na over Ri, ni over Ra
PatternCell_SwappedRadii(grid, s, row, col) ==
    LET na == WindowSum(grid, s.size, s.Ri, row, col)
        ni == WindowSum(grid, s.size, s.Ra, row, col)
        diff == s.wa * na - s.wi * ni
    IN  IF diff > 0 THEN Active ELSE Inactive

\* PatternCell with `diff >= 0`
PatternCell_NonStrict(grid, s, row, col) ==
    LET na == WindowSum(grid, s.size, s.Ra, row, col)
        ni == WindowSum(grid, s.size, s.Ri, row, col)
        diff == s.wa * na - s.wi * ni
    IN  IF diff >= 0 THEN Active ELSE Inactive

\* the value written to next_state[row, col]
PatternCell(grid, s, row, col) ==
    LET na == WindowSum(grid, s.size, s.Ra, row, col)
        ni == WindowSum(grid, s.size, s.Ri, row, col)
        diff == s.wa * na - s.wi * ni
    IN  IF diff > 0 THEN Active ELSE Inactive

\* for col in range(size): for row in range(size)
ColMajor(size) == [i \in 1..(size * size) |-> <<(i - 1) % size, (i - 1) \div size>>]

\* PatternSweep that stores a cell only when its state changes, so that
\* whatever next_state held from two steps ago stays where nothing changed
RECURSIVE PatternSweep_SkipUnchanged(_, _, _, _, _, _)
PatternSweep_SkipUnchanged(h, cur, nxt, s, order, i) ==
    IF i > Len(order) THEN h
    ELSE LET v == PatternCell(h[cur], s, order[i][1], order[i][2])
         IN  PatternSweep_SkipUnchanged(
                 IF v = h[cur][order[i]] THEN h ELSE [h EXCEPT ![nxt][order[i]] = v],
                 cur, nxt, s, order, i + 1)

RECURSIVE PatternSweep(_, _, _, _, _, _)
PatternSweep(h, cur, nxt, s, order, i) ==
    IF i > Len(order) THEN h
    ELSE PatternSweep([h EXCEPT ![nxt][order[i]] =
                           PatternCell(h[cur], s, order[i][1], order[i][2])],
                      cur, nxt, s, order, i + 1)

PatternUpdate ==
    /\ sim.kind = "pattern"
    /\ sim.step_counter < MaxStep
    /\ \E order \in {ColMajor(sim.size)} :
          heap' = PatternSweep(heap, sim.current_state, sim.next_state, sim,
                               order, 1)
    /\ sim' = Swap(sim)
    /\ err' = "none"
    /\ UNCHANGED <<initialized, ref, anim>>

\* ------------------------------------------------------ pattern: initialize
\* PatternSeedCount as int(self.density * num_cells) + 1, without round(., 1)
PatternSeedCount_NoRound(size, density) ==
    Trunc(density * (size * size), DensityScale) + 1

\* int(round(self.density * num_cells, 1) + 1)
PatternSeedCount(size, density) ==
    Trunc(RoundTenths(density * (size * size), DensityScale) + 10, 10)

\* np.random.choice(range(num_cells), c, replace=False) raises ValueError for
\* c < 0 and for c > num_cells, before line 36 assigns anything. The figure
\* made by plt.subplots() belongs to the rendering and is left out.
PatternInitialize ==
    /\ sim.kind = "pattern"
    /\ ~initialized /\ sim.step_counter = 0
    /\ initialized' = TRUE
    /\ UNCHANGED <<sim, ref, anim>>
    /\ LET num_cells == sim.size * sim.size
           c == PatternSeedCount(sim.size, sim.density)
           cur == sim.current_state
       IN  \/ /\ (c < 0 \/ c > num_cells)
              /\ err' = "ValueError"
              /\ UNCHANGED heap
           \/ /\ c >= 0 /\ c <= num_cells
              /\ err' = "none"
              /\ \E random_indices \in KSubsets(0..(num_cells - 1), c) :
                   heap' = [heap EXCEPT ![cur] =
                               SetFlat(heap[cur], sim.size, random_indices, Active)]

\* ------------------------------------------------------------ specification
Next ==
    \/ FireInitialize
    \/ FireUpdate
    \/ PatternInitialize
    \/ PatternUpdate

Spec == Init /\ [][Next]_vars

\* ------------------------------------------------------------------ queries
\* the grid a reader of sim.current_state sees
Current == heap[sim.current_state]

\* the array next_state refers to: after an update(), the grid before it
Previous == heap[sim.next_state]

\* a step of the behaviour that is a completed update() of the fire model
FireStepped == sim.kind = "fire" /\ sim'.step_counter = sim.step_counter + 1

\* a step of the behaviour that is a completed update() of the pattern model
PatternStepped == sim.kind = "pattern" /\ sim'.step_counter = sim.step_counter + 1

\* the offsets (dr, dc) of the square window of radius r
Window(r) == (-r..r) \X (-r..r)

\* the cell at offset o from cell c on the torus
Wrapped(size, c, o) == <<(c[1] + o[1]) % size, (c[2] + o[2]) % size>>

\* ------------------------------------------------- reading the current grid
\* a caller reads the attribute sim.current_state (as the drawing code does,
\* forest_fire.py:126 and turing_patterns.py:44) and keeps what it got: the
\* array itself. The drivers read it once initialize() has run.
Query ==
    /\ sim.kind # "none"
    /\ initialized \/ sim.step_counter >= 1
    /\ ref' = [array |-> sim.current_state, step |-> sim.step_counter,
               cells |-> heap[sim.current_state]]
    /\ UNCHANGED <<sim, heap, err, initialized, anim>>

\* constructor calls that give a grid which changes from step to step: a
\* full or sparse forest with a radius that spreads the fire, and a sparse
\* pattern seeding
ConstructedMoving ==
    \/ \E size \in 1..MaxSize, density \in {23, 100}, radius \in 1..MaxRadius :
          Construct(ForestFire(size, density, radius))
    \/ \E size \in 1..MaxSize, w \in {<<3, 1>>, <<1, -1>>} :
          Construct(TuringPatterns(size, 11, 1, MaxRadius, w[1], w[2]))

QueryInit ==
    /\ initialized = FALSE
    /\ ref = NoRef
    /\ anim = Animation(1)
    /\ ConstructedMoving

QueryNext == Next \/ Query

SpecQuery == QueryInit /\ [][QueryNext]_vars

\* ------------------------------------------------------ animation drivers
\* one sim.update() of the fire model on the pair st = [sim, heap, progress]
FireStep(st, order) ==
    [st EXCEPT !.sim = Swap(st.sim),
               !.heap = FireSweep(st.heap, st.sim.current_state, st.sim.next_state,
                                  st.sim.size, st.sim.radius, order, 1)]

\* for _ in range(steps_per_frame): sim.update()   (forest_fire.py:121-122),
\* the iterations from i on
RECURSIVE FireFrameLoop(_, _, _, _)
FireFrameLoop(st, order, i, steps_per_frame) ==
    IF i >= steps_per_frame THEN st
    ELSE FireFrameLoop(FireStep(st, order), order, i + 1, steps_per_frame)

\* the frame callback update(frame, sim, steps_per_frame, progress_bar) of
\* forest_fire.py: the loop, the drawing (no state), progress_bar.update(1)
FireFrame ==
    /\ sim.kind = "fire"
    /\ initialized /\ err = "none"
    /\ anim.frame < MaxFrames
    /\ sim.step_counter + anim.steps_per_frame <= MaxStep
    /\ \E order \in {RowMajor(sim.size)} :
          \E st \in {FireFrameLoop([sim |-> sim, heap |-> heap,
                                     progress |-> anim.progress],
                                    order, 0, anim.steps_per_frame)} :
             /\ sim' = st.sim
             /\ heap' = st.heap
             /\ anim' = [anim EXCEPT !.frame = anim.frame + 1,
                                     !.progress = st.progress + 1]
    /\ err' = "none"
    /\ UNCHANGED <<initialized, ref>>

\* one sim.update() of the pattern model followed by progress_bar.update(1)
PatternStep(st, order) ==
    [sim |-> Swap(st.sim),
     heap |-> PatternSweep(st.heap, st.sim.current_state, st.sim.next_state,
                           st.sim, order, 1),
     progress |-> st.progress + 1]

\* PatternFrameLoop with the return after the loop
RECURSIVE PatternFrameLoop_NoEarlyReturn(_, _, _, _)
PatternFrameLoop_NoEarlyReturn(st, order, i, steps_per_frame) ==
    IF i >= steps_per_frame THEN st
    ELSE PatternFrameLoop_NoEarlyReturn(PatternStep(st, order), order, i + 1,
                                        steps_per_frame)

\* for _ in range(steps_per_frame): sim.update(); progress_bar.update(1);
\* return [sim.draw()]   (turing_patterns.py:75-78): the return is in the loop
\* body, so the first iteration ends the call
PatternFrameLoop(st, order, i, steps_per_frame) ==
    IF i >= steps_per_frame THEN st
    ELSE PatternStep(st, order)

\* the frame callback update(frame_number, steps_per_frame, progress_bar) of
\* turing_patterns.py, called once by make_animation and then per frame
PatternFrame ==
    /\ sim.kind = "pattern"
    /\ initialized /\ err = "none"
    /\ anim.frame < MaxFrames
    /\ sim.step_counter + anim.steps_per_frame <= MaxStep
    /\ \E order \in {ColMajor(sim.size)} :
          \E st \in {PatternFrameLoop([sim |-> sim, heap |-> heap,
                                        progress |-> anim.progress],
                                       order, 0, anim.steps_per_frame)} :
             /\ sim' = st.sim
             /\ heap' = st.heap
             /\ anim' = [anim EXCEPT !.frame = anim.frame + 1,
                                     !.progress = st.progress]
    /\ err' = "none"
    /\ UNCHANGED <<initialized, ref>>

\* make_animation(sim, total_frames, steps_per_frame) on a new simulation
FramesInit ==
    /\ initialized = FALSE
    /\ ref = NoRef
    /\ \E steps_per_frame \in StepsPerFrame : anim = Animation(steps_per_frame)
    /\ ConstructedMoving

\* make_animation: sim.initialize(), then the frame callbacks
FramesNext == FireInitialize \/ PatternInitialize \/ FireFrame \/ PatternFrame

SpecFrames == FramesInit /\ [][FramesNext]_vars

\* ------------------------------------------------------------------- claims
\* C1: fire monotonicity. Every update() of the fire model leaves every cell
\* that is Burnt in the current grid Burnt in the new current grid; hence a
\* Burnt cell is Burnt after every later update().
C1_BurntStaysBurnt ==
    [][FireStepped =>
          \A c \in Cells(sim.size) : Current[c] = Burnt => Current'[c] = Burnt]_vars

\* a cell that was Burnt before the last update() and is Burnt after it,
\* at least two updates into the fire
C1_Witness ==
    /\ sim.kind = "fire" /\ initialized /\ sim.step_counter >= 2
    /\ \E c \in Cells(sim.size) : Previous[c] = Burnt /\ Current[c] = Burnt

\* C2: fire one-step burn. Every cell that is Burning before an update() is
\* Burnt after it, whatever its neighbours are.
C2_BurningBecomesBurnt ==
    [][FireStepped =>
          \A c \in Cells(sim.size) : Current[c] = Burning => Current'[c] = Burnt]_vars

\* a cell that was Burning, next to a Tree, before the last update() and is
\* Burnt after it
C2_Witness ==
    /\ sim.kind = "fire" /\ sim.step_counter >= 1 /\ sim.size >= 2
    /\ \E c \in Cells(sim.size) :
          /\ Previous[c] = Burning /\ Current[c] = Burnt
          /\ \E o \in Window(1) : Previous[Wrapped(sim.size, c, o)] = Tree

\* the cells at the 8 radius-1 offsets around c
Moore(size, c) == {Wrapped(size, c, o) : o \in Window(1) \ {<<0, 0>>}}

FireRuleGrid(grid, s) ==
    [c \in Cells(s.size) |-> FireCell(grid, s.size, s.radius, c[1], c[2])]

\* the pattern rule applied to every cell of one grid at once
PatternRuleGrid(grid, s) ==
    [c \in Cells(s.size) |-> PatternCell(grid, s, c[1], c[2])]

Reversed(order) == [i \in 1..Len(order) |-> order[Len(order) + 1 - i]]

\* C4: synchronous step. After update() of either model the current grid is
\* the transition rule applied cell by cell to the grid that was current
\* before the call, and sweeping the cells in another order (backwards, and
\* for the fire model also with the two loops exchanged) writes the same grid.
C4_Synchronous ==
    [][/\ FireStepped =>
             /\ Current' = FireRuleGrid(Current, sim)
             /\ \A order \in {Reversed(RowMajor(sim.size)), ColMajor(sim.size)} :
                   FireSweep(heap, sim.current_state, sim.next_state, sim.size,
                             sim.radius, order, 1)[sim.next_state] = Current'
       /\ PatternStepped =>
             /\ Current' = PatternRuleGrid(Current, sim)
             /\ \A order \in {Reversed(ColMajor(sim.size))} :
                   PatternSweep(heap, sim.current_state, sim.next_state, sim,
                                order, 1)[sim.next_state] = Current']_vars

\* a Tree that the sweep visits after its Burning neighbour: the neighbour is
\* Burnt in the new grid and the Tree still caught its fire
C4_Witness ==
    /\ sim.kind = "fire" /\ sim.step_counter >= 1
    /\ \E i, j \in 1..(sim.size * sim.size) :
          LET a == RowMajor(sim.size)[i]
              b == RowMajor(sim.size)[j]
          IN  /\ i < j
              /\ b \in Moore(sim.size, a)
              /\ Previous[a] = Burning /\ Current[a] = Burnt
              /\ Previous[b] = Tree /\ Current[b] = Burning

\* the number of offsets of the radius-r window around c that lead to an
\* Active cell; on a grid of 0s and 1s, the sum of the states over the window
ActiveInWindow(grid, size, r, c) ==
    Cardinality({o \in Window(r) : grid[Wrapped(size, c, o)] = Active})

\* short_weight * na - long_weight * ni for cell c of grid
Difference(grid, s, c) ==
    s.wa * ActiveInWindow(grid, s.size, s.Ra, c)
       - s.wi * ActiveInWindow(grid, s.size, s.Ri, c)

\* C5: pattern rule with strict threshold. The grid holds only 0 and 1, and
\* after update() a cell is Active iff short_weight * na - long_weight * ni > 0
\* over the pre-step grid, both windows counting the centre; a difference of
\* exactly 0 gives Inactive whatever the cell was.
C5_StrictThreshold ==
    [][PatternStepped =>
          /\ \A c \in Cells(sim.size) : Current[c] \in {Inactive, Active}
          /\ \A c \in Cells(sim.size) :
                /\ Current'[c] = Active <=> Difference(Current, sim, c) > 0
                /\ Current'[c] = Inactive <=> Difference(Current, sim, c) <= 0
                /\ Difference(Current, sim, c) = 0 => Current'[c] = Inactive]_vars

\* a cell that was Active with a difference of exactly 0 although na > 0, and
\* is Inactive after the update()
C5_Witness ==
    /\ sim.kind = "pattern" /\ sim.step_counter >= 1
    /\ \E c \in Cells(sim.size) :
          /\ Previous[c] = Active
          /\ ActiveInWindow(Previous, sim.size, sim.Ra, c) > 0
          /\ Difference(Previous, sim, c) = 0
          /\ Current[c] = Inactive

\* C6: step counter. It is 0 after construction, initialize() leaves it
\* alone and every update() adds exactly 1, so it never decreases and counts
\* the update() calls.
C6_StepCounter ==
    /\ sim.kind # "none" => sim.step_counter = 0
    /\ [][/\ initialized' # initialized => sim'.step_counter = sim.step_counter
          /\ initialized' = initialized => sim'.step_counter = sim.step_counter + 1
          /\ sim'.step_counter >= sim.step_counter]_vars

\* an initialised pattern simulation that has completed MaxStep updates
C6_Witness ==
    /\ sim.kind = "pattern" /\ initialized /\ err = "none"
    /\ sim.step_counter = MaxStep

\* C7: fire seeding. On a freshly constructed fire simulation with density in
\* [0, 1], initialize() leaves exactly k = floor(density * size^2) cells
\* non-Empty; for k >= 1 one of them is Burning and k - 1 are Tree, for k = 0
\* every cell is Empty. size = 10 and density = 0.3 give k = 30.
C7_FireSeeding ==
    /\ FireSeedCount(10, 30) = 30
    /\ [][(/\ sim.kind = "fire"
            /\ initialized' # initialized
            /\ sim.density \in 0..DensityScale
            /\ Current = zeros(sim.size)) =>
              LET k == (sim.density * sim.size * sim.size) \div DensityScale
                  Seeded(v) == {c \in Cells(sim.size) : Current'[c] = v}
              IN  /\ Cardinality(Cells(sim.size) \ Seeded(Empty)) = k
                  /\ Seeded(Burnt) = {}
                  /\ IF k >= 1
                     THEN Cardinality(Seeded(Burning)) = 1
                          /\ Cardinality(Seeded(Tree)) = k - 1
                     ELSE Seeded(Empty) = Cells(sim.size)]_vars

\* a seeded forest before its first update(): one Burning cell, Tree cells
\* and Empty cells
C7_Witness ==
    /\ sim.kind = "fire" /\ initialized /\ sim.step_counter = 0
    /\ sim.density \in 1..(DensityScale - 1)
    /\ Cardinality({c \in Cells(sim.size) : Current[c] = Burning}) = 1
    /\ \E c \in Cells(sim.size) : Current[c] = Tree
    /\ \E c \in Cells(sim.size) : Current[c] = Empty

\* the parameters section 7 of the specification lets a constructor accept
ValidParameters(s) ==
    /\ s.size > 0
    /\ s.density \in 0..DensityScale
    /\ IF s.kind = "fire" THEN s.radius >= 1
       ELSE s.Ra >= 1 /\ s.Ri >= 1 /\ s.Ri >= s.Ra

\* C8: construction validation. No simulation with size <= 0, density outside
\* [0, 1], a radius < 1 or long_radius < short_radius exists and is stepped.
C8_InvalidNeverStepped ==
    (sim.kind # "none" /\ sim.step_counter > 0) => ValidParameters(sim)

\* C9: pattern seeding. initialize() asks for
\* c = floor(round(density * size^2, 1)) + 1 distinct cells. For c <= size^2
\* exactly c cells are Active and the others Inactive (one cell at density 0);
\* for c > size^2, as at density 1, it raises and the grid stays all Inactive.
C9_PatternSeeding ==
    [][(sim.kind = "pattern" /\ initialized' # initialized) =>
          LET n == sim.size * sim.size
              c == (RoundTenths(sim.density * n, DensityScale) \div 10) + 1
              ActiveCells == {x \in Cells(sim.size) : Current'[x] = Active}
          IN  /\ c >= 1
              /\ sim.density = DensityScale => c = n + 1
              /\ IF c <= n
                 THEN /\ err' = "none"
                      /\ Cardinality(ActiveCells) = c
                      /\ \A x \in Cells(sim.size) \ ActiveCells : Current'[x] = Inactive
                 ELSE /\ err' = "ValueError"
                      /\ heap' = heap
                      /\ Current' = zeros(sim.size)]_vars

\* density 1 on a grid with cells: the request for size^2 + 1 cells was
\* refused and the grid is all Inactive
C9_Witness ==
    /\ sim.kind = "pattern" /\ initialized /\ sim.step_counter = 0
    /\ sim.density = DensityScale /\ sim.size >= 2
    /\ err = "ValueError"
    /\ Current = zeros(sim.size)

\* C10: buffer swap. current_state and next_state always name two different
\* arrays of size x size cells; the sweep of update() writes every cell, and
\* update() makes the array that was next_state the current one and keeps the
\* old current grid, cell for cell, as the new next_state.
C10_BufferSwap ==
    /\ [](sim.kind # "none" =>
             /\ sim.current_state # sim.next_state
             /\ {sim.current_state, sim.next_state} = DOMAIN heap
             /\ DOMAIN Current = Cells(sim.size)
             /\ DOMAIN Previous = Cells(sim.size)
             /\ {RowMajor(sim.size)[i] : i \in 1..(sim.size * sim.size)} = Cells(sim.size)
             /\ {ColMajor(sim.size)[i] : i \in 1..(sim.size * sim.size)} = Cells(sim.size))
    /\ [][(FireStepped \/ PatternStepped) =>
             /\ sim'.current_state = sim.next_state
             /\ sim'.next_state = sim.current_state
             /\ heap'[sim'.next_state] = heap[sim.current_state]]_vars

\* two updates into an initialised run the first array is current again, and
\* the two arrays hold different grids
C10_Witness ==
    /\ sim.kind # "none" /\ initialized /\ sim.step_counter = 2
    /\ sim.current_state = 1 /\ sim.next_state = 2
    /\ Current # Previous


\* the parameters of a simulation: every attribute but the two array
\* references and the step counter
Parameters(s) == [s EXCEPT !.current_state = 0, !.next_state = 0, !.step_counter = 0]

\* C11: pattern determinism. The grid after update() is a function of the
\* parameters and the current grid alone: a second simulation with the same
\* parameters and the same current grid, whose next_state array holds other
\* stale cells (all Active), is swept to the same grid, and the step
\* counter advances by 1 in both; update() changes no parameter.
C11_Determinism ==
    [][PatternStepped =>
          /\ Parameters(sim') = Parameters(sim)
          /\ sim'.step_counter = sim.step_counter + 1
          /\ \A stale \in {[c \in Cells(sim.size) |-> Active]} :
                \A order \in {ColMajor(sim.size)} :
                   PatternSweep([heap EXCEPT ![sim.next_state] = stale],
                                sim.current_state, sim.next_state, sim,
                                order, 1)[sim.next_state] = Current']_vars

\* at least two updates into a seeded pattern run, with Active cells before
\* and after the last update() and a grid that changed in it
C11_Witness ==
    /\ sim.kind = "pattern" /\ initialized /\ sim.step_counter >= 2
    /\ Current # Previous
    /\ \E c \in Cells(sim.size) : Current[c] = Active
    /\ \E c \in Cells(sim.size) : Previous[c] = Active

\* C12: Empty cells are fixed. An update() of the fire model keeps every
\* Empty cell Empty and makes no other cell Empty, so the set of Empty cells
\* never changes.
C12_EmptyFixed ==
    [][FireStepped =>
          {c \in Cells(sim.size) : Current'[c] = Empty}
             = {c \in Cells(sim.size) : Current[c] = Empty}]_vars

\* an Empty cell next to a Burning one before the last update() that is
\* Empty after it, in a forest that also had a Tree
C12_Witness ==
    /\ sim.kind = "fire" /\ initialized /\ sim.step_counter >= 1 /\ sim.radius >= 1
    /\ \E c \in Cells(sim.size) :
          /\ Previous[c] = Empty /\ Current[c] = Empty
          /\ \E o \in Window(sim.radius) : Previous[Wrapped(sim.size, c, o)] = Burning
    /\ \E c \in Cells(sim.size) : Previous[c] = Tree


\* C13: step before initialize. An update() of a simulation that was never
\* initialized either fails with NotInitialized and changes neither grid nor
\* step counter, or works on the all-Empty / all-Inactive grid, leaves it
\* all-Empty / all-Inactive and adds 1 to the step counter.
C13_StepBeforeInitialize ==
    [][(~initialized /\ ~initialized' /\ sim.kind # "none") =>
          \/ /\ err' = "NotInitialized"
             /\ heap' = heap /\ sim' = sim
          \/ /\ err' = "none"
             /\ \A c \in Cells(sim.size) : Current[c] = 0
             /\ \A c \in Cells(sim.size) : Current'[c] = 0
             /\ sim'.step_counter = sim.step_counter + 1]_vars

\* a simulation of at least 2 x 2 cells stepped without initialize() (if it
\* is a pattern simulation, one with a positive short weight)
C13_Witness ==
    /\ ~initialized /\ sim.kind # "none" /\ sim.size >= 2
    /\ sim.step_counter >= 1
    /\ sim.kind = "pattern" => sim.wa > 0
    /\ \A c \in Cells(sim.size) : Current[c] = 0

\* C14: multiple counting on small grids. The window sums na and ni of
\* update() have one term per offset pair of [-r, r]^2, so each equals the
\* number of offset pairs whose wrapped target is Active; when 2r + 1 > size
\* an Active cell reached by k offsets contributes k.
C14_MultipleCounting ==
    [][PatternStepped =>
          \A c \in Cells(sim.size) : \A r \in {sim.Ra, sim.Ri} :
             WindowSum(Current, sim.size, r, c[1], c[2])
                = ActiveInWindow(Current, sim.size, r, c)]_vars

\* an update() whose window was wider than the grid and gave some cell a sum
\* larger than the number of Active cells of the whole grid
C14_Witness ==
    /\ sim.kind = "pattern" /\ initialized /\ sim.step_counter >= 1
    /\ \E r \in {sim.Ra, sim.Ri} :
          /\ 2 * r + 1 > sim.size
          /\ \E c \in Cells(sim.size) :
                WindowSum(Previous, sim.size, r, c[1], c[2])
                   > Cardinality({d \in Cells(sim.size) : Previous[d] = Active})

\* C16: all-Inactive is absorbing. If every cell of the pattern grid is
\* Inactive before update(), every cell is Inactive after it, for every size,
\* radii and weights.
C16_AllInactiveAbsorbing ==
    [][(PatternStepped /\ \A c \in Cells(sim.size) : Current[c] = Inactive) =>
          \A c \in Cells(sim.size) : Current'[c] = Inactive]_vars

\* an all-Inactive grid stepped twice in a run that was seeded, with a
\* positive short weight and a negative long weight
C16_Witness ==
    /\ sim.kind = "pattern" /\ sim.size >= 2 /\ sim.step_counter >= 2
    /\ sim.wa > 0 /\ sim.wi < 0
    /\ \A c \in Cells(sim.size) : Previous[c] = Inactive /\ Current[c] = Inactive

\* C17: collapse when inhibition dominates. With 1 <= short_radius <=
\* long_radius every cell has na <= ni, and if also 0 <= short_weight <=
\* long_weight the grid is all-Inactive after one update(), whatever it held.
C17_InhibitionDominates ==
    [][(PatternStepped /\ 1 <= sim.Ra /\ sim.Ra <= sim.Ri) =>
          /\ \A c \in Cells(sim.size) :
                WindowSum(Current, sim.size, sim.Ra, c[1], c[2])
                   <= WindowSum(Current, sim.size, sim.Ri, c[1], c[2])
          /\ (0 <= sim.wa /\ sim.wa <= sim.wi) =>
                \A c \in Cells(sim.size) : Current'[c] = Inactive]_vars

\* a seeded grid with Active cells, some cell with 0 < na < ni, wiped out by
\* one update() under 0 < short_weight <= long_weight
C17_Witness ==
    /\ sim.kind = "pattern" /\ initialized /\ sim.step_counter = 1
    /\ 1 <= sim.Ra /\ sim.Ra < sim.Ri /\ 0 < sim.wa /\ sim.wa <= sim.wi
    /\ \E c \in Cells(sim.size) :
          /\ 0 < WindowSum(Previous, sim.size, sim.Ra, c[1], c[2])
          /\ WindowSum(Previous, sim.size, sim.Ra, c[1], c[2])
                < WindowSum(Previous, sim.size, sim.Ri, c[1], c[2])
    /\ \A c \in Cells(sim.size) : Current[c] = Inactive


\* the cells of grid in state v
CellsIn(grid, size, v) == {c \in Cells(size) : grid[c] = v}

\* repeated update() from grid reaches a grid without Burning cell in at most
\* n steps
RECURSIVE DiesWithin(_, _, _)
DiesWithin(grid, s, n) ==
    IF CellsIn(grid, s.size, Burning) = {} THEN TRUE
    ELSE IF n = 0 THEN FALSE
    ELSE \E g \in {FireRuleGrid(grid, s)} : DiesWithin(g, s, n - 1)

\* C15: the fire dies out. From every fire grid with T Tree cells, repeated
\* update() reaches a grid without Burning cell within T + 1 steps (while
\* a Burning cell is left after an update(), that update() has used up a
\* Tree), and an update() of a grid without Burning cell, the all-Empty grid
\* included, leaves the grid as it is and only adds 1 to step_counter.
C15_FireDiesOut ==
    /\ [](sim.kind = "fire" =>
             DiesWithin(Current, sim,
                        Cardinality(CellsIn(Current, sim.size, Tree)) + 1))
    /\ [][FireStepped =>
             /\ CellsIn(Current', sim.size, Burning) # {} =>
                   Cardinality(CellsIn(Current', sim.size, Tree))
                      < Cardinality(CellsIn(Current, sim.size, Tree))
             /\ CellsIn(Current, sim.size, Burning) = {} =>
                   /\ Current' = Current
                   /\ sim'.step_counter = sim.step_counter + 1]_vars

\* a fire that spread to a second cell, went out, and was stepped once more
\* without any change to the grid
C15_Witness ==
    /\ sim.kind = "fire" /\ initialized /\ sim.step_counter = 3
    /\ Cardinality(CellsIn(Current, sim.size, Burnt)) >= 2
    /\ CellsIn(Previous, sim.size, Burning) = {}
    /\ Current = Previous


\* C18: lifetime of an exposed grid reference. The array a caller got from
\* current_state at step k still holds the step-k cells after the (k+1)-th
\* update(), when it is the simulation's next_state array, and after the
\* (k+2)-th update() it is current_state again and holds the step-(k+2) grid.
C18_ReferenceLifetime ==
    ref.array # 0 =>
       /\ sim.step_counter = ref.step =>
             ref.array = sim.current_state /\ heap[ref.array] = ref.cells
       /\ sim.step_counter = ref.step + 1 =>
             ref.array = sim.next_state /\ heap[ref.array] = ref.cells
       /\ sim.step_counter = ref.step + 2 =>
             ref.array = sim.current_state /\ heap[ref.array] = Current

\* a reference two updates after it was taken: the array no longer holds the
\* cells the caller saw, and the grid in between was yet another one
C18_Witness ==
    /\ ref.array # 0
    /\ sim.step_counter = ref.step + 2
    /\ heap[ref.array] # ref.cells
    /\ Previous # ref.cells /\ Previous # Current


\* the fire rule applied n times to grid
RECURSIVE FireRuleTimes(_, _, _)
FireRuleTimes(grid, s, n) ==
    IF n = 0 THEN grid ELSE FireRuleTimes(FireRuleGrid(grid, s), s, n - 1)

\* C19: steps per frame. One frame callback of the fire driver advances the
\* simulation by exactly steps_per_frame update() calls; one frame callback
\* of the pattern driver advances it by exactly one update() for every
\* steps_per_frame >= 1, because it returns inside its loop.
C19_StepsPerFrame ==
    [][anim'.frame = anim.frame + 1 =>
          /\ sim.kind = "fire" =>
                /\ sim'.step_counter = sim.step_counter + anim.steps_per_frame
                /\ Current' = FireRuleTimes(Current, sim, anim.steps_per_frame)
          /\ (sim.kind = "pattern" /\ anim.steps_per_frame >= 1) =>
                /\ sim'.step_counter = sim.step_counter + 1
                /\ Current' = PatternRuleGrid(Current, sim)]_vars

\* two frames of a pattern animation with steps_per_frame = 2 that moved the
\* grid: two update() calls made, not four
C19_Witness ==
    /\ sim.kind = "pattern" /\ anim.steps_per_frame = 2 /\ anim.frame = 2
    /\ sim.step_counter = 2 /\ anim.progress = 2
    /\ Current # Previous


\* C20: short-circuit of the presence test. In update(), the scan of a Tree
\* cell's neighbours reads no further neighbour once it has read a Burning
\* one: a Burning neighbour is the last cell the scan visits.
C20_ShortCircuit ==
    [][FireStepped =>
          \A c \in Cells(sim.size) :
             Current[c] = Tree =>
                \A visited \in {ScanVisits(Current, sim.size, sim.radius,
                                           c[1], c[2], -sim.radius, <<>>)} :
                   \A i \in 1..Len(visited) :
                      Current[Wrapped(sim.size, c, visited[i])] = Burning =>
                         i = Len(visited)]_vars

====
